---- MODULE Spec2Model ----
(***************************************************************************)
(* graphDescend() of graph-descend.js builds one MongoDB aggregation       *)
(* expression: a $reduce over $range(0, maxElements + 1) whose accumulator *)
(* is {result, subLevelsToInspect}.  The model evaluates that expression   *)
(* on one document ($$ROOT), one fold step per action.                     *)
(*                                                                         *)
(* BSON values are tagged records: [t |-> "null"], [t |-> "int", n |-> 5], *)
(* [t |-> "string", s |-> "0_1"], [t |-> "object", d |-> f] with f a       *)
(* function from field names to values, [t |-> "array", a |-> seq], and    *)
(* [t |-> "missing"] for the value of an absent field.                     *)
(*                                                                         *)
(* Documents follow the data model of the specification: a field holds a   *)
(* scalar, null, a nested document or an array of documents.               *)
(***************************************************************************)
EXTENDS Integers, Sequences, FiniteSets, TLC

VARIABLES
    connectToField,      \* parameter: branching field of the inner levels
    startWithArg,        \* parameter startWith as passed ("" is JS null / "")
    maxElements,         \* parameter
    omitFields,          \* parameter, a set of field names
    maxDepth,            \* parameter as passed, before the clamp of line 46
    showSchema,          \* parameter
    ROOT,                \* the document the expression is evaluated on
    this,                \* $$this of the outer $reduce: the next index
    result,              \* $$value.result
    subLevelsToInspect,  \* $$value.subLevelsToInspect
    call,                \* which call on ROOT this is: "first", or the
                         \* argument a second call changed
    previous             \* maxElements and result of the call before

vars == <<connectToField, startWithArg, maxElements, omitFields, maxDepth,
          showSchema, ROOT, this, result, subLevelsToInspect, call, previous>>

params == <<connectToField, startWithArg, maxElements, omitFields, maxDepth,
            showSchema, ROOT>>

-----------------------------------------------------------------------------
(* Bounds of the model *)

\* documents of the traversal family have at most MaxNodes sub-documents
MaxNodes == 5
\* the traversal family takes maxElements in -1 .. MaxElementsArg
MaxElementsArg == 5
\* documents of the field family have at most MaxFieldNodes sub-documents
MaxFieldNodes == 2
\* documents of the leaf family have at most MaxLeafNodes sub-documents
MaxLeafNodes == 3

-----------------------------------------------------------------------------
(* BSON values *)

Missing == [t |-> "missing"]
Null == [t |-> "null"]
IntV(n) == [t |-> "int", n |-> n]
Str(s) == [t |-> "string", s |-> s]
Doc(f) == [t |-> "object", d |-> f]
Arr(s) == [t |-> "array", a |-> s]

EmptyDoc == [z \in {} |-> Null]

\* the order in which the fields of a document are stored
FieldOrder == <<"_ord", "_depth", "_idx", "schema", "WARNING", "val",
                "properties", "children", "x">>

-----------------------------------------------------------------------------
(* The aggregation operators the expression uses *)

\* $first: the first element, missing for an empty array
First(arr) == IF arr = <<>> THEN Missing ELSE Head(arr)

\* $getField: missing unless the input is a document that has the field
GetField(field, input) ==
    IF input.t = "object" /\ field \in DOMAIN input.d
    THEN input.d[field]
    ELSE Missing

\* $ifNull: the replacement for null and missing
IfNull(v, replacement) ==
    IF v.t \in {"null", "missing"} THEN replacement ELSE v

\* $isArray
IsArray(v) == v.t = "array"

\* $add of a value and a number: null when the value is null or missing
Add(v, k) == IF v.t = "int" THEN IntV(v.n + k) ELSE Null

\* $lte of a value and a number: null and missing sort before every number
Lte(v, k) == IF v.t = "int" THEN v.n <= k ELSE TRUE

\* $objectToArray: the {k, v} pairs of a document, in field order
ObjectToArray(v) ==
    LET names == SelectSeq(FieldOrder, LAMBDA f : f \in DOMAIN v.d)
    IN  [j \in 1..Len(names) |-> [k |-> names[j], v |-> v.d[names[j]]]]

\* $arrayToObject: a repeated name keeps the last value
RECURSIVE ArrayToObjectFields(_)
ArrayToObjectFields(kvs) ==
    IF kvs = <<>>
    THEN EmptyDoc
    ELSE LET last == kvs[Len(kvs)]
         IN  (last.k :> last.v) @@ ArrayToObjectFields(SubSeq(kvs, 1, Len(kvs) - 1))

ArrayToObject(kvs) == Doc(ArrayToObjectFields(kvs))

\* $type
Type(v) == v.t

\* $slice: [array, position, n] with position >= 0
Slice(arr, position, n) ==
    IF position >= Len(arr)
    THEN <<>>
    ELSE SubSeq(arr, position + 1, IF position + n > Len(arr) THEN Len(arr) ELSE position + n)

-----------------------------------------------------------------------------
(* graphDescend *)

\* startWith falling back to the default name of connectToField
startWithDefaultChildren == IF startWithArg # "" THEN startWithArg ELSE "children"

\* line 40: startWith = startWith ? startWith : connectToField
startWith == IF startWithArg # "" THEN startWithArg ELSE connectToField

\* maxDepthVar taking a negative maxDepth for 0
maxDepthVarNegativeIsZero ==
    IF maxDepth < 0 THEN 0 ELSE IF maxDepth > 100 THEN 100 ELSE maxDepth

\* line 46: the $let variable maxDepth
maxDepthVar == IF maxDepth < 0 \/ maxDepth > 100 THEN 100 ELSE maxDepth

WarningText == "The 'maxElements' parameter for graphDescend() was not set to a large enough value to fully descend a nested document"

WarningRecord == Doc("WARNING" :> Str(WarningText))

\* line 66 (and the $cond of lines 127-131): the branching field of a step
currChildFieldName(i) == IF i <= 0 THEN startWith ELSE connectToField

\* lines 84-97: the schema entry
schemaEntry(currLevelElement) ==
    IF showSchema
    THEN LET fields == ObjectToArray(GetField("subdoc", currLevelElement))
         IN  << [k |-> "schema",
                 v |-> Arr([j \in 1..Len(fields) |->
                              Doc(("fieldname" :> Str(fields[j].k)) @@
                                  ("type" :> Str(Type(fields[j].v))))])] >>
    ELSE <<>>

\* keptFields without the omitFields test of line 104
keptFieldsNoOmit(currLevelElement, i) ==
    SelectSeq(ObjectToArray(GetField("subdoc", currLevelElement)),
              LAMBDA e : e.k # currChildFieldName(i))

\* keptFields dropping both branching field names at every level
keptFieldsBothNames(currLevelElement, i) ==
    SelectSeq(ObjectToArray(GetField("subdoc", currLevelElement)),
              LAMBDA e : /\ e.k \notin {startWith, connectToField}
                         /\ ~(e.k \in omitFields))

\* lines 98-110: the fields of the sub-document that are kept
keptFields(currLevelElement, i) ==
    SelectSeq(ObjectToArray(GetField("subdoc", currLevelElement)),
              LAMBDA e : /\ e.k # currChildFieldName(i)
                         /\ ~(e.k \in omitFields))

\* lines 77-112: the record of the sub-document at the head of the list
normalRecord(currLevelElement, i) ==
    ArrayToObject(
        << [k |-> "_ord", v |-> IntV(i)] >> \o
        << [k |-> "_depth", v |-> GetField("_depth", currLevelElement)] >> \o
        << [k |-> "_idx", v |-> GetField("_idx", currLevelElement)] >> \o
        schemaEntry(currLevelElement) \o
        keptFields(currLevelElement, i))

\* resultUpdate with $gt for the $gte of line 75
resultUpdateNoBuffer(i) ==
    LET currLevelElement == First(subLevelsToInspect)
    IN  result \o
        (IF IfNull(currLevelElement, Missing) # Missing
         THEN IF i > maxElements
              THEN << WarningRecord >>
              ELSE << normalRecord(currLevelElement, i) >>
         ELSE <<>>)

\* resultUpdate with the marker one index early
resultUpdateEarlyMarker(i) ==
    LET currLevelElement == First(subLevelsToInspect)
    IN  result \o
        (IF IfNull(currLevelElement, Missing) # Missing
         THEN IF i >= maxElements - 1
              THEN << WarningRecord >>
              ELSE << normalRecord(currLevelElement, i) >>
         ELSE <<>>)

\* resultUpdate testing the index against maxElements before the head
resultUpdateBudgetFirst(i) ==
    LET currLevelElement == First(subLevelsToInspect)
    IN  result \o
        (IF i >= maxElements
         THEN << WarningRecord >>
         ELSE IF IfNull(currLevelElement, Missing) # Missing
              THEN << normalRecord(currLevelElement, i) >>
              ELSE <<>>)

\* lines 62-119: the new value of result
resultUpdate(i) ==
    LET currLevelElement == First(subLevelsToInspect)
    IN  result \o
        (IF IfNull(currLevelElement, Missing) # Missing
         THEN IF i >= maxElements
              THEN << WarningRecord >>
              ELSE << normalRecord(currLevelElement, i) >>
         ELSE <<>>)

\* childEntries with $lt for the $lte of line 145
childEntriesBelowMaxDepth(currLevelChildren, currLevelIdx, newDepthNumber) ==
    IF IsArray(currLevelChildren) /\ Lte(Add(newDepthNumber, 1), maxDepthVar)
    THEN [j \in 1..Len(currLevelChildren.a) |->
            Doc(("_depth" :> newDepthNumber) @@
                ("_idx" :> Str(currLevelIdx.s \o "_" \o ToString(j - 1))) @@
                ("subdoc" :> currLevelChildren.a[j]))]
    ELSE <<>>

\* childEntries testing the head's depth, not the children's, at line 145
childEntriesHeadDepth(currLevelChildren, currLevelIdx, newDepthNumber) ==
    IF IsArray(currLevelChildren) /\ Lte(Add(newDepthNumber, -1), maxDepthVar)
    THEN [j \in 1..Len(currLevelChildren.a) |->
            Doc(("_depth" :> newDepthNumber) @@
                ("_idx" :> Str(currLevelIdx.s \o "_" \o ToString(j - 1))) @@
                ("subdoc" :> currLevelChildren.a[j]))]
    ELSE <<>>

\* childEntries taking a single nested document for an array of one element
childEntriesWrapDocument(currLevelChildren, currLevelIdx, newDepthNumber) ==
    IF IsArray(currLevelChildren) /\ Lte(newDepthNumber, maxDepthVar)
    THEN [j \in 1..Len(currLevelChildren.a) |->
            Doc(("_depth" :> newDepthNumber) @@
                ("_idx" :> Str(currLevelIdx.s \o "_" \o ToString(j - 1))) @@
                ("subdoc" :> currLevelChildren.a[j]))]
    ELSE IF currLevelChildren.t = "object" /\ Lte(newDepthNumber, maxDepthVar)
    THEN << Doc(("_depth" :> newDepthNumber) @@
                ("_idx" :> Str(currLevelIdx.s \o "_0")) @@
                ("subdoc" :> currLevelChildren)) >>
    ELSE <<>>

\* childEntries giving the children the depth of the head
childEntriesSameDepth(currLevelChildren, currLevelIdx, newDepthNumber) ==
    IF IsArray(currLevelChildren) /\ Lte(newDepthNumber, maxDepthVar)
    THEN [j \in 1..Len(currLevelChildren.a) |->
            Doc(("_depth" :> Add(newDepthNumber, -1)) @@
                ("_idx" :> Str(currLevelIdx.s \o "_" \o ToString(j - 1))) @@
                ("subdoc" :> currLevelChildren.a[j]))]
    ELSE <<>>

\* lines 144-163: the children of the head, as entries of the list
childEntries(currLevelChildren, currLevelIdx, newDepthNumber) ==
    IF IsArray(currLevelChildren) /\ Lte(newDepthNumber, maxDepthVar)
    THEN [j \in 1..Len(currLevelChildren.a) |->
            Doc(("_depth" :> newDepthNumber) @@
                ("_idx" :> Str(currLevelIdx.s \o "_" \o ToString(j - 1))) @@
                ("subdoc" :> currLevelChildren.a[j]))]
    ELSE <<>>

\* subLevelsUpdate putting the children before the rest of the list
subLevelsUpdateChildrenFirst(i) ==
    LET subLevelsToInspectSize == Len(subLevelsToInspect)
        head == First(subLevelsToInspect)
        currLevelChildren == GetField(currChildFieldName(i), GetField("subdoc", head))
        currLevelIdx == GetField("_idx", head)
        newDepthNumber == Add(GetField("_depth", head), 1)
    IN  childEntries(currLevelChildren, currLevelIdx, newDepthNumber) \o
        (IF subLevelsToInspectSize > 0
         THEN Slice(subLevelsToInspect, 1, subLevelsToInspectSize + 1)
         ELSE <<>>)

\* subLevelsUpdate leaving the head in the list
subLevelsUpdateKeepHead(i) ==
    LET subLevelsToInspectSize == Len(subLevelsToInspect)
        head == First(subLevelsToInspect)
        currLevelChildren == GetField(currChildFieldName(i), GetField("subdoc", head))
        currLevelIdx == GetField("_idx", head)
        newDepthNumber == Add(GetField("_depth", head), 1)
    IN  (IF subLevelsToInspectSize > 0
         THEN Slice(subLevelsToInspect, 0, subLevelsToInspectSize + 1)
         ELSE <<>>) \o
        childEntries(currLevelChildren, currLevelIdx, newDepthNumber)

\* lines 123-167: the new value of subLevelsToInspect
subLevelsUpdate(i) ==
    LET subLevelsToInspectSize == Len(subLevelsToInspect)
        head == First(subLevelsToInspect)
        currLevelChildren == GetField(currChildFieldName(i), GetField("subdoc", head))
        currLevelIdx == GetField("_idx", head)
        newDepthNumber == Add(GetField("_depth", head), 1)
    IN  (IF subLevelsToInspectSize > 0
         THEN Slice(subLevelsToInspect, 1, subLevelsToInspectSize + 1)
         ELSE <<>>) \o
        childEntries(currLevelChildren, currLevelIdx, newDepthNumber)

\* lines 52-58: the initial value of the fold
initialValue(root) ==
    [result |-> <<>>,
     subLevelsToInspect |->
        << Doc(("_depth" :> IntV(0)) @@ ("_idx" :> Str("0")) @@ ("subdoc" :> root)) >>]

-----------------------------------------------------------------------------
(* The documents and parameters the model is run on *)

\* a leaf's branching field: absent, null, a scalar, one document, no element
LeafField(bf, kind) ==
    CASE kind = "absent" -> EmptyDoc
      [] kind = "null"   -> bf :> Null
      [] kind = "scalar" -> bf :> IntV(5)
      [] kind = "doc"    -> bf :> Doc("x" :> IntV(1))
      [] kind = "empty"  -> bf :> Arr(<<>>)

\* Docs(n, bf, E, L): the documents of n sub-documents whose children are
\* under bf at the root and under "children" below it, every sub-document
\* carrying the fields of one element of E and every leaf one kind of L
RECURSIVE Docs(_, _, _, _), Forests(_, _, _)
Docs(n, bf, E, L) ==
    IF n = 1
    THEN { Doc(LeafField(bf, kind) @@ e) : e \in E, kind \in L }
    ELSE { Doc((bf :> Arr(kids)) @@ e) : e \in E, kids \in Forests(n - 1, E, L) }

Forests(m, E, L) ==
    IF m = 0
    THEN { <<>> }
    ELSE UNION { { <<t>> \o f : t \in Docs(k, "children", E, L),
                                f \in Forests(m - k, E, L) } : k \in 1..m }

DocsUpTo(max, bf, E, L) == UNION { Docs(n, bf, E, L) : n \in 1..max }

ExtrasTraverse == { "val" :> IntV(1) }

ExtrasFields ==
    { EmptyDoc,
      ("val" :> IntV(3)) @@ ("properties" :> Arr(<< Doc("val" :> IntV(2)) >>))
                         @@ ("children" :> Arr(<< Doc("val" :> IntV(2)) >>)),
      ("val" :> IntV(1)) @@ ("_ord" :> IntV(7)) @@ ("_depth" :> IntV(7))
                         @@ ("_idx" :> Str("x")) @@ ("schema" :> IntV(9)) }

\* documents of up to MaxNodes sub-documents, every budget and depth limit
InitTraverse ==
    /\ connectToField = "children"
    /\ startWithArg \in {"", "properties"}
    /\ maxElements \in -2..MaxElementsArg
    /\ omitFields = {}
    /\ maxDepth \in {-1, 0, 1, 2, 100, 101}
    /\ showSchema = FALSE
    /\ ROOT \in UNION { DocsUpTo(MaxNodes, bf, ExtrasTraverse, {"absent"})
                          : bf \in {"properties", "children"} }

\* small documents with every mix of fields, omission set and field names
InitFields ==
    /\ \E names \in { <<"children", "">>, <<"children", "properties">>,
                       <<"properties", "children">>, <<"_depth", "">> } :
          /\ connectToField = names[1]
          /\ startWithArg = names[2]
    /\ \E limits \in { <<1, 100>>, <<3, 100>>, <<3, 1>> } :
          /\ maxElements = limits[1]
          /\ maxDepth = limits[2]
    /\ omitFields \in { {}, {"val"}, {"_ord", "_depth"}, {"val", "_idx", "WARNING", "children"} }
    /\ showSchema \in BOOLEAN
    /\ ROOT \in UNION { DocsUpTo(MaxFieldNodes, bf, ExtrasFields, {"absent", "scalar", "empty"})
                          : bf \in {"properties", "children"} }

\* documents whose leaves have every kind of branching field
InitLeaves ==
    /\ connectToField = "children"
    /\ startWithArg \in {"", "properties"}
    /\ maxElements \in {1, 3}
    /\ omitFields = {}
    /\ maxDepth = 100
    /\ showSchema = FALSE
    /\ ROOT \in UNION { DocsUpTo(MaxLeafNodes, bf, ExtrasTraverse,
                                  {"absent", "null", "scalar", "doc", "empty"})
                          : bf \in {"properties", "children"} }

Init ==
    /\ InitTraverse \/ InitFields \/ InitLeaves
    /\ this = 0
    /\ result = initialValue(ROOT).result
    /\ subLevelsToInspect = initialValue(ROOT).subLevelsToInspect
    /\ call = "first"
    /\ previous = [maxElements |-> maxElements, maxDepth |-> maxDepth, result |-> <<>>]

\* Step going on for as long as subLevelsToInspect has an entry
StepWhileWorklist ==
    /\ subLevelsToInspect # <<>>
    /\ result' = resultUpdate(this)
    /\ subLevelsToInspect' = subLevelsUpdate(this)
    /\ this' = this + 1
    /\ UNCHANGED <<params, call, previous>>

\* lines 49-51 and 59-170: one step of the $reduce over $range(0, maxElements + 1)
Step ==
    /\ this < maxElements + 1
    /\ result' = resultUpdate(this)
    /\ subLevelsToInspect' = subLevelsUpdate(this)
    /\ this' = this + 1
    /\ UNCHANGED <<params, call, previous>>

\* the fold is over: result is the value the expression yields
Done == this >= maxElements + 1

-----------------------------------------------------------------------------
(* The tree the parameters select in ROOT, walked by depth: the root is at *)
(* depth 0 and branches on startWith, every deeper sub-document branches   *)
(* on connectToField, and nothing below the clamped maxDepth is reachable. *)

BranchingField(depth) == IF depth = 0 THEN startWith ELSE connectToField

NodeChildren(n) ==
    LET f == BranchingField(n.depth)
        v == IF f \in DOMAIN n.subdoc.d THEN n.subdoc.d[f] ELSE Missing
    IN  IF v.t = "array" /\ n.depth + 1 <= maxDepthVar
        THEN [j \in 1..Len(v.a) |->
                [depth |-> n.depth + 1,
                 path |-> n.path \o "_" \o ToString(j - 1),
                 parent |-> n.path,
                 subdoc |-> v.a[j]]]
        ELSE <<>>

RECURSIVE NextLevel(_)
NextLevel(level) ==
    IF level = <<>> THEN <<>> ELSE NodeChildren(Head(level)) \o NextLevel(Tail(level))

RECURSIVE LevelOrderFrom(_)
LevelOrderFrom(level) ==
    IF level = <<>> THEN <<>> ELSE level \o LevelOrderFrom(NextLevel(level))

\* the reachable sub-documents, level by level, siblings left to right
LevelOrder ==
    LevelOrderFrom(<< [depth |-> 0, path |-> "0", parent |-> "", subdoc |-> ROOT] >>)

\* A pipeline evaluates several graphDescend expressions on the same
\* document.  After the first call is over, a second call changes one
\* argument and starts from the initial value; previous keeps the result of
\* the first.
SecondCall(changed) ==
    /\ Done
    /\ call = "first"
    /\ call' = changed
    /\ previous' = [maxElements |-> maxElements, maxDepth |-> maxDepth, result |-> result]
    /\ this' = 0
    /\ result' = initialValue(ROOT).result
    /\ subLevelsToInspect' = initialValue(ROOT).subLevelsToInspect

\* the second call has a budget that is enough for the whole document
CallWithBudget ==
    /\ maxElements < Len(LevelOrder)
    /\ maxElements' = Len(LevelOrder)
    /\ SecondCall("maxElements")
    /\ UNCHANGED <<connectToField, startWithArg, omitFields, maxDepth, showSchema, ROOT>>

\* the second call passes 100 for a maxDepth that was out of range
CallWithMaxDepth100 ==
    /\ maxDepth < 0 \/ maxDepth > 100
    /\ maxDepth' = 100
    /\ SecondCall("maxDepth")
    /\ UNCHANGED <<connectToField, startWithArg, maxElements, omitFields, showSchema, ROOT>>

\* the second call passes connectToField for a startWith that was absent
CallWithStartWith ==
    /\ startWithArg = ""
    /\ startWithArg' = connectToField
    /\ SecondCall("startWith")
    /\ UNCHANGED <<connectToField, maxElements, omitFields, maxDepth, showSchema, ROOT>>

Next ==
    \/ Step
    \/ CallWithBudget
    \/ CallWithMaxDepth100
    \/ CallWithStartWith

Spec == Init /\ [][Next]_vars

\* the inputs termination is checked on: every budget, negative ones
\* included, depth limits in and out of range, documents of every shape of
\* up to MaxNodes - 1 sub-documents (all of them inputs of InitTraverse)
InitTermination ==
    /\ connectToField = "children"
    /\ startWithArg \in {"", "properties"}
    /\ maxElements \in -2..MaxElementsArg
    /\ omitFields = {}
    /\ maxDepth \in {-1, 1, 100}
    /\ showSchema = FALSE
    /\ ROOT \in UNION { DocsUpTo(MaxNodes - 1, bf, ExtrasTraverse, {"absent"})
                          : bf \in {"properties", "children"} }

FairInit ==
    /\ InitTermination
    /\ this = 0
    /\ result = initialValue(ROOT).result
    /\ subLevelsToInspect = initialValue(ROOT).subLevelsToInspect
    /\ call = "first"
    /\ previous = [maxElements |-> maxElements, maxDepth |-> maxDepth, result |-> <<>>]

\* $reduce goes through every element of its input array: a step that can
\* be taken is taken
FairSpec == FairInit /\ [][Next]_vars /\ WF_vars(Step)

\* a node as an entry of subLevelsToInspect
Entry(n) ==
    Doc(("_depth" :> IntV(n.depth)) @@ ("_idx" :> Str(n.path)) @@ ("subdoc" :> n.subdoc))

IsMarker(r) == r = WarningRecord
IsNormal(r) == r # WarningRecord
Normals == { k \in 1..Len(result) : IsNormal(result[k]) }
Markers == { k \in 1..Len(result) : IsMarker(result[k]) }

\* the fields graphDescend itself puts in a normal record
MetaNames == {"_ord", "_depth", "_idx"} \cup (IF showSchema THEN {"schema"} ELSE {})

-----------------------------------------------------------------------------
(* Claims *)

RecDepth(r) == r.d["_depth"].n
RecOrder(r) == r.d["_ord"].n

\* C1: breadth-first ordering: for every pair of normal records a, b of the
\* result with a.depth < b.depth, a.order < b.order and a stands before b
C1_BreadthFirstOrdering ==
    \A j \in Normals : \A k \in Normals :
        RecDepth(result[j]) < RecDepth(result[k])
            => RecOrder(result[j]) < RecOrder(result[k]) /\ j < k

\* C2: the normal records are the level-order listing of the tree: the k-th
\* record is the record of the k-th sub-document in level order (siblings in
\* array order, children of different parents in the order of their parents)
C2_LevelOrderListing ==
    LET order == LevelOrder
    IN  \A k \in Normals :
            /\ k <= Len(order)
            /\ result[k] = normalRecord(Entry(order[k]), k - 1)

\* two siblings and two cousins (same depth, different parents) were emitted
C2_Witness ==
    /\ \E j \in Normals : \E k \in Normals :
          /\ j < k /\ k <= Len(LevelOrder)
          /\ LevelOrder[j].depth = LevelOrder[k].depth
          /\ LevelOrder[j].parent # LevelOrder[k].parent
    /\ \E j \in Normals : \E k \in Normals :
          /\ j < k /\ k <= Len(LevelOrder)
          /\ LevelOrder[j].path # LevelOrder[k].path
          /\ LevelOrder[j].parent = LevelOrder[k].parent


\* C3 as stated: when the fold is over, for every maxElements, the result
\* holds the overrun marker iff more sub-documents are reachable within the
\* clamped maxDepth than maxElements
C3_OverrunForEveryBudget ==
    Done => ((Markers # {}) <=> (Len(LevelOrder) > maxElements))

\* C3 amended: for every maxElements >= 0, when the fold is over the result
\* holds the overrun marker iff more sub-documents are reachable within the
\* clamped maxDepth than maxElements
C3_OverrunCorrectness ==
    (Done /\ maxElements >= 0)
        => ((Markers # {}) <=> (Len(LevelOrder) > maxElements))

\* a fold that ended with the marker, and one whose budget was exactly enough
C3_Witness ==
    /\ Done
    /\ maxElements >= 2
    /\ Markers # {}
    /\ Len(LevelOrder) = maxElements + 1

\* C4: completeness: when at most maxElements sub-documents are reachable,
\* the finished result is exactly their records, one each, with no marker,
\* and subLevelsToInspect is empty
C4_Completeness ==
    LET order == LevelOrder
    IN  (Done /\ Len(order) <= maxElements)
            => /\ Len(result) = Len(order)
               /\ \A k \in 1..Len(order) :
                     result[k] = normalRecord(Entry(order[k]), k - 1)
               /\ Markers = {}
               /\ subLevelsToInspect = <<>>

\* a document of three levels fully flattened with no budget to spare
C4_Witness ==
    /\ Done
    /\ Len(LevelOrder) = maxElements
    /\ Len(result) >= 4
    /\ \E k \in 1..Len(LevelOrder) : LevelOrder[k].depth = 2

\* C5: with a budget the index can reach (maxElements >= 0) the result never
\* holds more than maxElements + 1 elements, and a step at index maxElements
\* that finds subLevelsToInspect non-empty leaves the result with exactly one
\* marker, last, after exactly maxElements normal records
C5_SingleFinalMarker ==
    /\ [](maxElements >= 0 => Len(result) <= maxElements + 1)
    /\ [][(this = maxElements /\ subLevelsToInspect # <<>>)
            => /\ Len(result') = maxElements + 1
               /\ IsMarker(result'[maxElements + 1])
               /\ \A k \in 1..maxElements : IsNormal(result'[k])]_vars

\* the marker was appended while two sub-documents were still to inspect
C5_Witness ==
    /\ Done
    /\ maxElements >= 2
    /\ Markers = {maxElements + 1}
    /\ Len(subLevelsToInspect) >= 2


\* C6: depth bound: no normal record has a depth greater than the clamped
\* maxDepth
C6_DepthBound ==
    \A k \in Normals : RecDepth(result[k]) <= maxDepthVar

\* C7: no entry of subLevelsToInspect is ever deeper than the clamped
\* maxDepth, and a step whose head is at the clamped maxDepth emits the head
\* (a normal record while the index is below maxElements) and appends none of
\* its children
C7_DepthLimitStopsDescentOnly ==
    /\ [](\A k \in 1..Len(subLevelsToInspect) :
             subLevelsToInspect[k].d["_depth"].n <= maxDepthVar)
    /\ [][(/\ this' = this + 1
           /\ subLevelsToInspect # <<>>
           /\ Head(subLevelsToInspect).d["_depth"].n = maxDepthVar)
            => /\ subLevelsToInspect' = Tail(subLevelsToInspect)
               /\ this < maxElements
                    => /\ IsNormal(normalRecord(Head(subLevelsToInspect), this))
                       /\ result' = result \o
                            << normalRecord(Head(subLevelsToInspect), this) >>]_vars

\* the sub-document just emitted is at the clamped maxDepth and has children
C7_Witness ==
    /\ this >= 1
    /\ this <= maxElements
    /\ Len(result) = this
    /\ this <= Len(LevelOrder)
    /\ LET n == LevelOrder[this]
           f == BranchingField(n.depth)
       IN  /\ n.depth = maxDepthVar
           /\ n.depth >= 1
           /\ f \in DOMAIN n.subdoc.d
           /\ n.subdoc.d[f].t = "array"
           /\ Len(n.subdoc.d[f].a) >= 1

\* C8 as stated: no record holds a field named in the omission set, and no
\* normal record holds the branching field active at its depth
C8_NoOmittedFieldAtAll ==
    \A k \in 1..Len(result) :
        /\ DOMAIN result[k].d \cap omitFields = {}
        /\ (IsNormal(result[k]) /\ k <= Len(LevelOrder))
              => BranchingField(LevelOrder[k].depth) \notin DOMAIN result[k].d

\* the value graphDescend gives a field of MetaNames in the k-th record
MetaValue(f, k) ==
    CASE f = "_ord"   -> IntV(k - 1)
      [] f = "_depth" -> IntV(LevelOrder[k].depth)
      [] f = "_idx"   -> Str(LevelOrder[k].path)
      [] f = "schema" ->
            LET sub == LevelOrder[k].subdoc
                names == SelectSeq(FieldOrder, LAMBDA g : g \in DOMAIN sub.d)
            IN  Arr([j \in 1..Len(names) |->
                       Doc(("fieldname" :> Str(names[j])) @@
                           ("type" :> Str(sub.d[names[j]].t)))])

\* C8 amended: in every normal record, a field named in the omission set or
\* naming the branching field active at the record's depth appears only when
\* it is one of the fields graphDescend adds itself (_ord, _depth, _idx, and
\* schema when showSchema is set), and then it holds the value graphDescend
\* gives it, never the sub-document's
C8_FieldOmission ==
    \A k \in Normals :
        /\ k <= Len(LevelOrder)
        /\ \A f \in (omitFields \cup {BranchingField(LevelOrder[k].depth)})
                       \cap DOMAIN result[k].d :
              /\ f \in MetaNames
              /\ result[k].d[f] = MetaValue(f, k)

\* a record whose sub-document owns an omitted field that is not in the
\* record, and a record whose sub-document owns an omitted field that
\* graphDescend also adds
C8_Witness ==
    /\ \E k \in Normals : \E f \in omitFields :
          /\ f \in DOMAIN LevelOrder[k].subdoc.d
          /\ f \notin DOMAIN result[k].d
    /\ \E k \in Normals : \E f \in omitFields :
          /\ f \in DOMAIN LevelOrder[k].subdoc.d
          /\ f \in DOMAIN result[k].d

\* C9: field retention: every field of the visited sub-document that is
\* neither in the omission set nor the branching field active at its depth is
\* in the record with its value unchanged
C9_FieldRetention ==
    LET order == LevelOrder
    IN  \A k \in Normals :
            /\ k <= Len(order)
            /\ \A f \in DOMAIN order[k].subdoc.d
                          \ (omitFields \cup {BranchingField(order[k].depth)}) :
                  /\ f \in DOMAIN result[k].d
                  /\ result[k].d[f] = order[k].subdoc.d[f]

\* the root's record keeps its connectToField field (startWith differs) and
\* an inner record keeps its startWith field
C9_Witness ==
    /\ startWith # connectToField
    /\ Len(result) >= 2
    /\ Normals = 1..Len(result)
    /\ connectToField \in DOMAIN ROOT.d
    /\ connectToField \in DOMAIN result[1].d
    /\ result[1].d[connectToField] = ROOT.d[connectToField]
    /\ startWith \in DOMAIN LevelOrder[2].subdoc.d
    /\ startWith \in DOMAIN result[2].d
    /\ result[2].d[startWith] = LevelOrder[2].subdoc.d[startWith]

\* C10: the paths of the normal records are pairwise distinct, the root's is
\* "0", and every other one is its parent's path, "_" and the index of the
\* sub-document in the parent's branching array
C10_PathUniquenessAndShape ==
    /\ \A j \in Normals : \A k \in Normals :
          j # k => result[j].d["_idx"] # result[k].d["_idx"]
    /\ \A k \in Normals :
          /\ k <= Len(LevelOrder)
          /\ result[k].d["_idx"] = Str(LevelOrder[k].path)


\* C11: monotonic order: the order of every normal record is its 0-based
\* position in the result, so the orders are 0, 1, 2, ... without gap up to
\* the position of the overrun marker, which is last when present
C11_MonotonicOrder ==
    /\ \A k \in Normals : result[k].d["_ord"] = IntV(k - 1)
    /\ \A m \in Markers : m = Len(result) /\ Normals = 1..(m - 1)

\* C12: metadata is the node's: the record a step appends for the head of
\* subLevelsToInspect has the step's index as order and the head's depth and
\* path, whatever fields the sub-document owns
C12_MetadataIsTheNodes ==
    [][(this' = this + 1 /\ Len(result') = Len(result) + 1
            /\ IsNormal(result'[Len(result')]))
        => LET r == result'[Len(result')]
               head == Head(subLevelsToInspect)
           IN  /\ r.d["_ord"] = IntV(this)
               /\ r.d["_depth"] = head.d["_depth"]
               /\ r.d["_idx"] = head.d["_idx"]]_vars


\* the value of the active branching field of the head of subLevelsToInspect
HeadBranchValue ==
    LET head == Head(subLevelsToInspect)
        f == BranchingField(head.d["_depth"].n)
    IN  IF f \in DOMAIN head.d["subdoc"].d THEN head.d["subdoc"].d[f] ELSE Missing

\* C13: leaf handling: a step whose head has a branching field that is null,
\* absent, a scalar, a single nested document or an empty array removes the
\* head from subLevelsToInspect and adds no entry, and appends the head's
\* normal record whenever the index is below maxElements (no marker that the
\* budget does not call for)
C13_LeafHandling ==
    [][(this' = this + 1 /\ subLevelsToInspect # <<>>
            /\ (HeadBranchValue.t # "array" \/ HeadBranchValue = Arr(<<>>)))
        => /\ subLevelsToInspect' = Tail(subLevelsToInspect)
           /\ Len(result') = Len(result) + 1
           /\ this < maxElements
                => /\ IsNormal(result'[Len(result')])
                   /\ result' = result \o << normalRecord(Head(subLevelsToInspect), this) >>
           /\ IsMarker(result'[Len(result')]) => this >= maxElements]_vars

\* the fold is over without marker and emitted two sibling leaves, one whose
\* branching field is null and one whose branching field is a nested document
C13_Witness ==
    /\ Done /\ Markers = {} /\ Len(result) = Len(LevelOrder)
    /\ \E j \in Normals : \E k \in Normals :
          /\ LevelOrder[j].parent = LevelOrder[k].parent
          /\ "children" \in DOMAIN LevelOrder[j].subdoc.d
          /\ LevelOrder[j].subdoc.d["children"] = Null
          /\ "children" \in DOMAIN LevelOrder[k].subdoc.d
          /\ LevelOrder[k].subdoc.d["children"].t = "object"


\* C14 as stated: truncation is a prefix, for every maxElements m smaller
\* than the number N of reachable sub-documents: the result for m is the
\* first m records of the result for a budget of N, followed by the marker
C14_TruncationIsPrefixForEveryBudget ==
    (call = "maxElements" /\ Done)
        => previous.result = SubSeq(result, 1, previous.maxElements) \o << WarningRecord >>

\* C14: truncation is a prefix, for every maxElements m with 0 <= m < N: the
\* result for m is the first m records of the result for a budget of N (all
\* of them normal), followed by the marker
C14_TruncationIsPrefix ==
    (call = "maxElements" /\ Done /\ previous.maxElements >= 0)
        => /\ previous.result = SubSeq(result, 1, previous.maxElements) \o << WarningRecord >>
           /\ \A k \in 1..previous.maxElements : IsNormal(result[k])
           /\ Markers = {}

\* a call with budget 2 or more was cut short by the marker, and the call
\* with the budget N on the same document is over
C14_Witness ==
    /\ call = "maxElements" /\ Done
    /\ previous.maxElements >= 2
    /\ Len(previous.result) = previous.maxElements + 1
    /\ Len(result) > previous.maxElements + 1


\* C15: maxDepth clamp: the result for a maxDepth below 0 or above 100 is the
\* result for maxDepth = 100 (a negative maxDepth is not taken for 0), and a
\* maxDepth in 0..100 is used as it is
C15_MaxDepthClamp ==
    /\ (call = "maxDepth" /\ Done) => result = previous.result
    /\ (0 <= maxDepth /\ maxDepth <= 100) => maxDepthVar = maxDepth

\* a call with a negative maxDepth emitted a sub-document of depth 2, and the
\* call with maxDepth = 100 on the same document is over
C15_Witness ==
    /\ call = "maxDepth" /\ Done
    /\ previous.maxDepth < 0
    /\ \E k \in 1..Len(previous.result) :
          /\ IsNormal(previous.result[k])
          /\ RecDepth(previous.result[k]) = 2


\* C16: startWith default: with startWith absent the root branches on
\* connectToField like every other level, so the result is the result of the
\* call with startWith = connectToField
C16_StartWithDefault ==
    /\ (call = "startWith" /\ Done) => result = previous.result
    /\ startWithArg = "" => BranchingField(0) = BranchingField(1)

\* a call without startWith emitted the root, a child and a grandchild, and
\* the call with startWith = connectToField on the same document is over
C16_Witness ==
    /\ call = "startWith" /\ Done
    /\ \E k \in 1..Len(previous.result) :
          /\ IsNormal(previous.result[k])
          /\ RecDepth(previous.result[k]) = 2


\* the positions in order (the level-order walk) of the ancestors of the
\* node at position p
RECURSIVE AncestorsOf(_, _)
AncestorsOf(order, p) ==
    IF order[p].parent = ""
    THEN {}
    ELSE LET q == CHOOSE j \in 1..Len(order) : order[j].path = order[p].parent
         IN  {q} \cup AncestorsOf(order, q)

\* every entry of subLevelsToInspect is a node not yet emitted, all of whose
\* ancestors were emitted as normal records
WorklistNodesPending ==
    LET order == LevelOrder
    IN  \A k \in 1..Len(subLevelsToInspect) :
            LET p == this + k
            IN  /\ p <= Len(order)
                /\ subLevelsToInspect[k] = Entry(order[p])
                /\ p > Len(result)
                /\ \A q \in AncestorsOf(order, p) :
                      /\ q \in Normals
                      /\ result[q] = normalRecord(Entry(order[q]), q - 1)

\* C17 as stated: worklist invariant: in every state of the fold, the state
\* after the last step included, every node in subLevelsToInspect has all
\* its ancestors emitted as normal records and was not itself emitted
C17_WorklistInvariantAlways == WorklistNodesPending

\* C17: worklist invariant: in every state of the fold in which the result
\* has no overrun marker, every node in subLevelsToInspect has all its
\* ancestors emitted as normal records and was not itself emitted
C17_WorklistInvariant == Markers = {} => WorklistNodesPending

\* without marker, the list holds two or more nodes, one of depth 2 or more
C17_Witness ==
    /\ Markers = {}
    /\ this >= 2
    /\ Len(subLevelsToInspect) >= 2
    /\ \E k \in 1..Len(subLevelsToInspect) : subLevelsToInspect[k].d["_depth"].n >= 2


\* C18: schema before filtering: with showSchema every normal record has a
\* schema field holding one {fieldname, type} entry for each own field of
\* its sub-document, the branching field and the omitted fields included;
\* without showSchema graphDescend adds no schema field, so a record has one
\* only when it is the sub-document's own
C18_SchemaBeforeFiltering ==
    \A k \in Normals :
        /\ k <= Len(LevelOrder)
        /\ showSchema
              => /\ "schema" \in DOMAIN result[k].d
                 /\ result[k].d["schema"] = MetaValue("schema", k)
        /\ (~showSchema /\ "schema" \in DOMAIN result[k].d)
              => /\ "schema" \in DOMAIN LevelOrder[k].subdoc.d
                 /\ result[k].d["schema"] = LevelOrder[k].subdoc.d["schema"]


\* C19: zero budget: with maxElements = 0 the result has no normal record;
\* it is empty or it is the overrun marker alone
C19_ZeroBudget ==
    maxElements = 0
        => /\ Normals = {}
           /\ result = <<>> \/ result = << WarningRecord >>

\* the fold with maxElements = 0 is over on a document of several
\* sub-documents, and the result is the marker alone
C19_Witness ==
    /\ maxElements = 0 /\ Done
    /\ Len(LevelOrder) >= 3
    /\ result = << WarningRecord >>


\* C20: root/inner field selection: in every state with a head, the index
\* is 0 iff the head has depth 0, so the field the code picks by index
\* (line 66) is the field selected by the head's depth
C20_FieldSelectionByIndex ==
    subLevelsToInspect # <<>>
        => LET depth == Head(subLevelsToInspect).d["_depth"].n
           IN  /\ (this = 0) <=> (depth = 0)
               /\ currChildFieldName(this) = BranchingField(depth)

\* a step at an index above 0 has a head, with startWith and connectToField
\* naming different fields
C20_Witness ==
    /\ this >= 1 /\ ~Done
    /\ subLevelsToInspect # <<>>
    /\ startWith # connectToField
    /\ Head(subLevelsToInspect).d["_depth"].n >= 1


\* the number of steps of a fold with the budget maxElements
FoldSteps == IF maxElements + 1 > 0 THEN maxElements + 1 ELSE 0

\* C21: bounded iteration: whatever the document, the fold comes to its end,
\* it never takes more than max(0, maxElements + 1) steps and has taken
\* exactly that many when it is over; with a negative maxElements it takes
\* no step and the result is empty, without marker
C21_BoundedIteration ==
    /\ [](this <= FoldSteps)
    /\ [](Done => this = FoldSteps)
    /\ [](maxElements < 0 => Done /\ this = 0 /\ result = <<>>)
    /\ [][this' # this => (this' = this + 1 \/ (Done /\ this' = 0))]_vars
    /\ (~Done) ~> Done

\* the fold is over after maxElements + 1 steps on a document that has more
\* sub-documents than that, some of them at depth 2
C21_Witness ==
    /\ Done /\ maxElements >= 2
    /\ this = maxElements + 1
    /\ Len(LevelOrder) > maxElements + 1
    /\ \E k \in 1..Len(LevelOrder) : LevelOrder[k].depth >= 2


\* C22: an exhausted worklist is a fixed point: a fold step taken with
\* subLevelsToInspect empty leaves result as it is (nothing is emitted) and
\* subLevelsToInspect empty (nothing is removed, nothing is appended)
C22_ExhaustedWorklistFixedPoint ==
    [][(this' = this + 1 /\ subLevelsToInspect = <<>>)
        => /\ result' = result
           /\ subLevelsToInspect' = <<>>]_vars

\* two steps or more were taken after the last sub-document of a document of
\* three or more was emitted
C22_Witness ==
    /\ Len(LevelOrder) >= 3
    /\ this >= Len(LevelOrder) + 2
    /\ subLevelsToInspect = <<>>
    /\ Markers = {}
    /\ Len(result) = Len(LevelOrder)


\* the depth of the k-th entry of subLevelsToInspect
EntryDepth(k) == subLevelsToInspect[k].d["_depth"].n

\* C23: worklist depth shape: in every state the depths of the entries of
\* subLevelsToInspect do not decrease from head to tail, and the depth of the
\* last entry is at most the depth of the head plus 1
C23_WorklistDepthShape ==
    LET n == Len(subLevelsToInspect)
    IN  /\ \A k \in 1..(n - 1) : EntryDepth(k) <= EntryDepth(k + 1)
        /\ n > 0 => EntryDepth(n) <= EntryDepth(1) + 1

\* the list holds three entries or more of two levels: the head is below the
\* root and the last entry is one level deeper than the head
C23_Witness ==
    /\ Len(subLevelsToInspect) >= 3
    /\ EntryDepth(1) >= 1
    /\ EntryDepth(Len(subLevelsToInspect)) = EntryDepth(1) + 1

====
